---- MODULE Spec2Model ----
(***************************************************************************)
(* Model of bubbles-app (src/bubbles-app/src/main.rs): the App component   *)
(* with its registry of VmEntry components, the start sequence each        *)
(* PowerToggle spawns, the forwarded status updates, instance creation     *)
(* with its registry replace-all, and the image pipeline.                  *)
(*                                                                         *)
(* Registry positions are 0-based as in the source; vms[i + 1] is the      *)
(* entry at position i.                                                    *)
(***************************************************************************)
EXTENDS Integers, Sequences, FiniteSets, TLC

\* ---------------------------------------------------------------- bounds
\* The VM directories present when the application starts.
InitDirs == {"a"}
\* The VM directories, as read_dir lists them, in the runs without instance
\* creation (the names are interchangeable, so one order stands for all).
StaticListing == <<"a", "b", "c">>
PairListing == <<"a", "b">>
\* The names the user enters in the creation dialog.
NewNames == {"b"}
\* Start sequences spawned in one run of the application.
MaxStarts == 2
\* Status updates forwarded to App and not yet handled.
MaxQueue == 2
\* Length of a control-channel response text.
MaxRespLen == 3
\* Runs of the image pipeline in one run of the application.
MaxRuns == 2

\* ------------------------------------------------------- program constants
\* index.current_index() + 10 (main.rs:421, main.rs:454)
CidBase == 10
\* File sizes are u64 byte counts, kept as two limbs hi * 2^30 + lo with
\* lo < 2^30; every size considered has hi < 2^34, so no u64 sum wraps.
Limb == 1073741824

VARIABLES
    vms,            \* App.vms: the factory's entries, each VmEntry.value
    dirs,           \* the directories under <data>/vms
    outq,           \* VmStateUpdate messages forwarded to App, not yet handled
    tasks,          \* the start sequences spawned so far (spawn_local, main.rs:408)
    passt_sockets,  \* names n whose /tmp/passt_socket_n exists
    shutdown_reqs,  \* a POST /shutdown exchange has been attempted
    currently_creating_bubble,
    create,         \* the create_vm task (spawn, main.rs:674)
    image_status,   \* App.image_status
    download,       \* the download_image task (spawn_local, main.rs:689)
    template,       \* the files under <data>/images/debian-13
    crashed,        \* a panic has aborted the process
    quit            \* relm4::main_application().quit() has been called

vars == <<vms, dirs, outq, tasks, passt_sockets, shutdown_reqs,
          currently_creating_bubble, create, image_status, download, template, crashed, quit>>

\* ------------------------------------------------------------- data types
VMStatus == {"NotRunning", "Running", "InFlux"}

ImageStatus == {"NotPresent", "Downloading", "Present"}

VM(name, status) == [name |-> name, status |-> status]

\* --------------------------------------------------------- pure functions
\* Fault: the CID taken from the low bit of the position.
CID_LowBit(i) == (i % 2) + CidBase

\* format!("...{}", index.current_index() + 10)
CID(i) == i + CidBase

\* All orders in which read_dir can list the set S of directories.
Orders(S) ==
    {s \in [1..Cardinality(S) -> S] : \A i, j \in DOMAIN s : i # j => s[i] # s[j]}

\* load_vms: one VM per directory entry, NotRunning, in read_dir's order.
load_vms(S) == {[i \in DOMAIN s |-> VM(s[i], "NotRunning")] : s \in Orders(S)}

\* determine_download_status: Present iff images/debian-13 exists.
determine_download_status(exists) == IF exists THEN "Present" ELSE "NotPresent"

\* ------------------------------------------------------------ file sizes
Size(hi, lo) == [hi |-> hi, lo |-> lo]

Plus(x, y) ==
    LET s == x.lo + y.lo IN Size(x.hi + y.hi + (s \div Limb), s % Limb)

Times1024(x) ==
    Size(x.hi * 1024 + (x.lo \div 1048576), (x.lo % 1048576) * 1024)

\* Fault: the increment computed with two factors of 1024 only.
GrowBy_MiB == Times1024(Times1024(Size(0, 15)))

\* 15 * 1024 * 1024 * 1024
GrowBy == Times1024(Times1024(Times1024(Size(0, 15))))

\* The sizes qemu-img convert can give the raw disk of the pinned artifact.
ConvertedSizes == {Size(0, 5), Size(1, Limb - 1), Size(2, 0)}

\* The size used where the image pipeline does not run.
TemplateSize == Size(2, 0)

\* ------------------------------------------------- template image directory
File(size) == [exists |-> TRUE, size |-> size]

NoFile == [exists |-> FALSE, size |-> Size(0, 0)]

NoTemplate == [dir |-> FALSE, qcow2 |-> FALSE, raw |-> NoFile]

\* The directory after one run of download_image in which every step succeeded.
Provisioned(size) == [dir |-> TRUE, qcow2 |-> FALSE, raw |-> File(Plus(size, GrowBy))]

\* The download_image task: idle, or about to run step pull, convert or expand,
\* or finish (FinishImageDownload sent).  "steps" records the steps the current
\* run has executed, "before" the directory when the run began, "artifact" the
\* raw size of the disk in the pinned artifact.
IdleDownload(size) ==
    [pc |-> "idle", runs |-> 0, steps |-> <<>>, before |-> NoTemplate, artifact |-> size]

\* ------------------------------------------------------ control channel
Chars == {"2", "0"}

Texts == UNION {[1..n -> Chars] : n \in 0..MaxRespLen}

\* unix_http's result: Err(io::Error) or Ok(response text).
HttpResults == {[ok |-> FALSE, text |-> <<>>]} \cup {[ok |-> TRUE, text |-> s] : s \in Texts}

\* response.contains("200")
Contains200(s) ==
    \E i \in 1..Len(s) : i + 2 <= Len(s) /\ SubSeq(s, i, i + 2) = <<"2", "0", "0">>

\* Fault: every completed exchange counts as ready.
ReadyAnswer_AnyOk(r) == r.ok

\* Ok(response) if response.contains("200") => return
ReadyAnswer(r) == r.ok /\ Contains200(r.text)

\* ------------------------------------------------------- start sequences
NewTask(name, index) ==
    [name |-> name, index |-> index, pc |-> "start",
     socat |-> "none", passt |-> "none", crosvm |-> "none",
     sig_socat |-> FALSE, sig_passt |-> FALSE,
     started |-> <<>>, socat_vsock |-> 0, vsock_cid |-> 0,
     guest |-> "none", ready |-> FALSE]

TaskIds == 1..Len(tasks)

\* Fault: the index follows the position at which the registry now lists the
\* VM's name.
current_index_Live(k) ==
    (CHOOSE i \in 1..Len(vms) : vms[i].name = tasks[k].name) - 1

\* DynamicIndex::current_index of the index a start sequence captured.
current_index(k) == tasks[k].index

SetTask(k, t) == [tasks EXCEPT ![k] = t]

\* Fault: the readiness loop of a silent guest sleeps without yielding, so no
\* other task runs while it polls.
Runnable_Blocking(k) ==
    /\ ~crashed
    /\ ~quit
    /\ k \in TaskIds
    /\ \A j \in TaskIds \ {k} :
          ~(tasks[j].pc = "wait_ready" /\ tasks[j].guest = "silent")

\* A task spawned with spawn_local runs whenever the process is alive: a task
\* suspended in a sleep or a wait does not hold the scheduler.
Runnable(k) == ~crashed /\ ~quit /\ k \in TaskIds

\* sender.output(VmStateUpdate::Update(index, status)), forwarded to App as
\* AppMsg::HandleVMStatusUpdate(index, status).
Output(k, status) == Append(outq, [index |-> current_index(k), status |-> status, task |-> k])

\* The create_vm task: idle, copying, finish (FinishBubbleCreation sent), or
\* panicked.
IdleCreate == [pc |-> "idle", name |-> ""]

\* ------------------------------------------------------------------ Init
\* App::init: image_status from the probe, the registry from load_vms(), which
\* lists the directories in the order "listing".
AppInit(listing, image_exists, size) ==
    /\ dirs = {listing[i] : i \in DOMAIN listing}
    /\ vms = [i \in DOMAIN listing |-> VM(listing[i], "NotRunning")]
    /\ vms \in load_vms(dirs)
    /\ outq = <<>>
    /\ tasks = <<>>
    /\ passt_sockets = {}
    /\ shutdown_reqs = FALSE
    /\ currently_creating_bubble = FALSE
    /\ create = IdleCreate
    /\ image_status = determine_download_status(image_exists)
    /\ download = IdleDownload(size)
    /\ template = IF image_exists THEN Provisioned(size) ELSE NoTemplate
    /\ crashed = FALSE
    /\ quit = FALSE

Init == \E listing \in Orders(InitDirs), image_exists \in BOOLEAN :
            AppInit(listing, image_exists, TemplateSize)

\* Instances on disk and no template image: the creation buttons are
\* insensitive, so the registry is never replaced.
InitStatic == AppInit(StaticListing, FALSE, TemplateSize)

InitPair == AppInit(PairListing, FALSE, TemplateSize)

\* The application with one instance on disk, for the runs of the image
\* pipeline.
InitImage == \E image_exists \in BOOLEAN, size \in ConvertedSizes :
                 AppInit(<<"a">>, image_exists, size)

\* A panic in a task of the main context, or in App::update, aborts the
\* process: the registry, the message queue and the tasks are gone.
Panic ==
    /\ crashed' = TRUE
    /\ vms' = <<>>
    /\ outq' = <<>>
    /\ tasks' = <<>>
    /\ shutdown_reqs' = FALSE
    /\ currently_creating_bubble' = FALSE
    /\ create' = IdleCreate
    /\ image_status' = "NotPresent"
    /\ download' = [download EXCEPT !.pc = "idle", !.steps = <<>>, !.before = NoTemplate]
    /\ UNCHANGED quit

\* The directories, the files and the socket paths stay.
Abort ==
    /\ Panic
    /\ UNCHANGED <<dirs, passt_sockets, template>>

\* ------------------------------------------------------- VmEntry::update
\* Fault: the stop branch publishes InFlux.
PowerToggle_StopPublishes(i) ==
    /\ ~crashed
    /\ ~quit
    /\ i \in 0..(Len(vms) - 1)
    /\ IF vms[i + 1].status \in {"Running", "InFlux"}
       THEN /\ Len(outq) < MaxQueue
            /\ \E connected \in BOOLEAN : shutdown_reqs' = TRUE
            /\ outq' = Append(outq, [index |-> i, status |-> "InFlux", task |-> 0])
            /\ UNCHANGED <<vms, dirs, tasks, passt_sockets,
                           currently_creating_bubble, create, image_status, download, template, crashed, quit>>
       ELSE /\ Len(tasks) < MaxStarts
            /\ Len(outq) < MaxQueue
            /\ outq' = Append(outq, [index |-> i, status |-> "InFlux",
                                     task |-> Len(tasks) + 1])
            /\ tasks' = Append(tasks, NewTask(vms[i + 1].name, i))
            /\ UNCHANGED <<vms, dirs, passt_sockets, shutdown_reqs,
                           currently_creating_bubble, create, image_status, download, template, crashed, quit>>

\* VmMsg::PowerToggle(index) handled by the entry at position i.
\* Running | InFlux: request_shutdown, a best-effort POST /shutdown whose
\* result is dropped.  NotRunning: publish InFlux and spawn the start sequence.
PowerToggle(i) ==
    /\ ~crashed
    /\ ~quit
    /\ i \in 0..(Len(vms) - 1)
    /\ IF vms[i + 1].status \in {"Running", "InFlux"}
       THEN /\ \E connected \in BOOLEAN : shutdown_reqs' = TRUE
            /\ UNCHANGED <<vms, dirs, outq, tasks, passt_sockets,
                           currently_creating_bubble, create, image_status, download, template, crashed, quit>>
       ELSE /\ Len(tasks) < MaxStarts
            /\ Len(outq) < MaxQueue
            /\ outq' = Append(outq, [index |-> i, status |-> "InFlux",
                                     task |-> Len(tasks) + 1])
            /\ tasks' = Append(tasks, NewTask(vms[i + 1].name, i))
            /\ UNCHANGED <<vms, dirs, passt_sockets, shutdown_reqs,
                           currently_creating_bubble, create, image_status, download, template, crashed, quit>>

\* Fault: passt spawned before socat.
StartHelpers_ProxyFirst(k) ==
    /\ Runnable(k)
    /\ tasks[k].pc = "start"
    /\ \E socat_ok, passt_ok \in BOOLEAN :
         LET t == tasks[k]
             t1 == [t EXCEPT !.passt = "alive",
                             !.started = Append(t.started, "passt")]
             t2 == [t1 EXCEPT !.socat = "alive",
                              !.started = Append(t1.started, "socat"),
                              !.socat_vsock = CID(current_index(k)),
                              !.pc = "wait_exists"]
         IN  IF socat_ok /\ passt_ok
             THEN /\ tasks' = SetTask(k, t2)
                  /\ UNCHANGED <<vms, dirs, outq, passt_sockets, shutdown_reqs,
                          currently_creating_bubble, create, image_status, download, template, crashed, quit>>
             ELSE Abort

\* The start sequence up to its first suspension: spawn socat (the guest-socket
\* bridge) with VSOCK-CONNECT:<index + 10>:11111, then spawn passt (the network
\* proxy).  A failed spawn panics ("start of socat process", "start of passt
\* process") and the panic aborts the process.
StartHelpers(k) ==
    /\ Runnable(k)
    /\ tasks[k].pc = "start"
    /\ \E socat_ok, passt_ok \in BOOLEAN :
         LET t == tasks[k]
             t1 == [t EXCEPT !.socat = "alive",
                             !.started = Append(t.started, "socat"),
                             !.socat_vsock = CID(current_index(k))]
             t2 == [t1 EXCEPT !.passt = "alive",
                              !.started = Append(t1.started, "passt"),
                              !.pc = "wait_exists"]
         IN  IF socat_ok /\ passt_ok
             THEN /\ tasks' = SetTask(k, t2)
                  /\ UNCHANGED <<vms, dirs, outq, passt_sockets, shutdown_reqs,
                          currently_creating_bubble, create, image_status, download, template, crashed, quit>>
             ELSE Abort

\* Fault: crosvm is spawned without waiting for the proxy's socket path.
WaitUntilExists_NoWait(k) ==
    /\ Runnable(k)
    /\ tasks[k].pc = "wait_exists"
    /\ \E crosvm_ok \in BOOLEAN, g \in {"answers", "silent"} :
         LET t == tasks[k] IN
         IF crosvm_ok
         THEN /\ tasks' = SetTask(k, [t EXCEPT !.crosvm = "alive",
                                               !.started = Append(t.started, "crosvm"),
                                               !.vsock_cid = CID(current_index(k)),
                                               !.guest = g,
                                               !.pc = "wait_ready"])
              /\ UNCHANGED <<vms, dirs, outq, passt_sockets, shutdown_reqs,
                      currently_creating_bubble, create, image_status, download, template, crashed, quit>>
         ELSE Abort

\* wait_until_exists(&passt_socket_path): while the path does not exist, sleep
\* 500 ms and look again; once it exists, spawn crosvm with --vsock <index + 10>.
\* A failed spawn panics ("start of process").
WaitUntilExists(k) ==
    /\ Runnable(k)
    /\ tasks[k].pc = "wait_exists"
    /\ IF tasks[k].name \in passt_sockets
       THEN \E crosvm_ok \in BOOLEAN, g \in {"answers", "silent"} :
              LET t == tasks[k] IN
              IF crosvm_ok
              THEN /\ tasks' = SetTask(k, [t EXCEPT !.crosvm = "alive",
                                                    !.started = Append(t.started, "crosvm"),
                                                    !.vsock_cid = CID(current_index(k)),
                                                    !.guest = g,
                                                    !.pc = "wait_ready"])
                   /\ UNCHANGED <<vms, dirs, outq, passt_sockets, shutdown_reqs,
                           currently_creating_bubble, create, image_status, download, template, crashed, quit>>
              ELSE Abort
       ELSE UNCHANGED vars

\* What unix_http(vsock_socket_path, "GET", "/ready") can return: a text with
\* "200" only from a guest that answers and whose hypervisor is alive.
ReadyResults(k) ==
    IF tasks[k].guest = "answers" /\ tasks[k].crosvm = "alive"
    THEN HttpResults
    ELSE {r \in HttpResults : ~ReadyAnswer(r)}

\* One turn of wait_until_ready's loop, given whether the match arm
\* "Ok(response) if response.contains("200")" was taken: return, and the start
\* sequence publishes Running; or sleep 500 ms and stay in the loop.
PollStep(k, ready) ==
    /\ IF ready
       THEN /\ Len(outq) < MaxQueue
            /\ tasks' = SetTask(k, [tasks[k] EXCEPT !.ready = TRUE, !.pc = "wait_crosvm"])
            /\ outq' = Output(k, "Running")
       ELSE UNCHANGED <<tasks, outq>>
    /\ UNCHANGED <<vms, dirs, passt_sockets, shutdown_reqs,
                   currently_creating_bubble, create, image_status, download, template, crashed, quit>>

\* wait_until_ready(&vsock_socket_path): one GET /ready exchange; on a "200"
\* publish Running, on anything else sleep 500 ms and try again.
WaitUntilReady(k) ==
    /\ Runnable(k)
    /\ tasks[k].pc = "wait_ready"
    /\ \E ready \in {ReadyAnswer(r) : r \in ReadyResults(k)} : PollStep(k, ready)

\* crosvm_process.wait_future().await.expect("vm to stop"), then SIGTERM to
\* socat and to passt.
WaitCrosvm(k) ==
    /\ Runnable(k)
    /\ tasks[k].pc = "wait_crosvm"
    /\ tasks[k].crosvm = "exited"
    /\ \E wait_ok \in BOOLEAN :
         IF wait_ok
         THEN /\ tasks' = SetTask(k, [tasks[k] EXCEPT !.sig_socat = TRUE,
                                                      !.sig_passt = TRUE,
                                                      !.pc = "wait_socat"])
              /\ UNCHANGED <<vms, dirs, outq, passt_sockets, shutdown_reqs,
                             currently_creating_bubble, create, image_status, download, template, crashed, quit>>
         ELSE Abort

\* Fault: the wait for socat's exit left out.
WaitSocat_NoWait(k) ==
    /\ Runnable(k)
    /\ tasks[k].pc = "wait_socat"
    /\ tasks' = SetTask(k, [tasks[k] EXCEPT !.pc = "wait_passt"])
    /\ UNCHANGED <<vms, dirs, outq, passt_sockets, shutdown_reqs,
                   currently_creating_bubble, create, image_status, download, template, crashed, quit>>

\* socat_process.wait_future().await.expect("socat to stop")
WaitSocat(k) ==
    /\ Runnable(k)
    /\ tasks[k].pc = "wait_socat"
    /\ tasks[k].socat = "exited"
    /\ \E wait_ok \in BOOLEAN :
         IF wait_ok
         THEN /\ tasks' = SetTask(k, [tasks[k] EXCEPT !.pc = "wait_passt"])
              /\ UNCHANGED <<vms, dirs, outq, passt_sockets, shutdown_reqs,
                             currently_creating_bubble, create, image_status, download, template, crashed, quit>>
         ELSE Abort

\* passt_process.wait_future().await.expect("passt to stop"), then publish
\* NotRunning.
WaitPasst(k) ==
    /\ Runnable(k)
    /\ tasks[k].pc = "wait_passt"
    /\ tasks[k].passt = "exited"
    /\ Len(outq) < MaxQueue
    /\ \E wait_ok \in BOOLEAN :
         IF wait_ok
         THEN /\ tasks' = SetTask(k, [tasks[k] EXCEPT !.pc = "done"])
              /\ outq' = Output(k, "NotRunning")
              /\ UNCHANGED <<vms, dirs, passt_sockets, shutdown_reqs,
                             currently_creating_bubble, create, image_status, download, template, crashed, quit>>
         ELSE Abort

\* ------------------------------------------------------------ environment
\* passt creates its --socket path once it listens.
PasstListens(k) ==
    /\ Runnable(k)
    /\ tasks[k].passt = "alive"
    /\ tasks[k].name \notin passt_sockets
    /\ passt_sockets' = passt_sockets \cup {tasks[k].name}
    /\ UNCHANGED <<vms, dirs, outq, tasks, shutdown_reqs,
                   currently_creating_bubble, create, image_status, download, template, crashed, quit>>

\* A spawned process exits: the hypervisor when its guest halts, a helper once
\* it has been sent SIGTERM.
ProcessExit(k, p) ==
    /\ Runnable(k)
    /\ tasks[k][p] = "alive"
    /\ p = "socat" => tasks[k].sig_socat
    /\ p = "passt" => tasks[k].sig_passt
    /\ tasks' = SetTask(k, [tasks[k] EXCEPT ![p] = "exited"])
    /\ UNCHANGED <<vms, dirs, outq, passt_sockets, shutdown_reqs,
                   currently_creating_bubble, create, image_status, download, template, crashed, quit>>

\* ------------------------------------------------------------ App::update
\* AppMsg::HandleVMStatusUpdate(index, status_update):
\* self.vms.guard().get_mut(index.current_index()).unwrap().value.status = status_update
HandleVMStatusUpdate ==
    /\ ~crashed
    /\ ~quit
    /\ outq # <<>>
    /\ LET m == Head(outq) IN
         IF m.index < Len(vms)
         THEN /\ vms' = [vms EXCEPT ![m.index + 1].status = m.status]
              /\ outq' = Tail(outq)
              /\ UNCHANGED <<dirs, tasks, passt_sockets, shutdown_reqs,
                             currently_creating_bubble, create, image_status, download, template, crashed, quit>>
         ELSE Abort

\* AppMsg::CreateNewBubble(name), sent by the creation dialog, whose buttons are
\* sensitive only while !currently_creating_bubble && image_status == Present.
CreateNewBubble(name) ==
    /\ ~crashed
    /\ ~quit
    /\ ~currently_creating_bubble
    /\ image_status = "Present"
    /\ currently_creating_bubble' = TRUE
    /\ create' = [pc |-> "copying", name |-> name]
    /\ UNCHANGED <<vms, dirs, outq, tasks, passt_sockets, shutdown_reqs,
                   image_status, download, template, crashed, quit>>

\* create_vm(name): create the directory, copy disk.img, vmlinuz and initrd.img;
\* each step panics on failure, which ends the task before it sends
\* FinishBubbleCreation.
create_vm ==
    /\ ~crashed
    /\ ~quit
    /\ create.pc = "copying"
    /\ \E failed \in {"none", "mkdir", "disk", "vmlinuz", "initrd"} :
         /\ dirs' = IF failed = "mkdir" THEN dirs ELSE dirs \cup {create.name}
         /\ create' = IF failed = "none"
                      THEN [create EXCEPT !.pc = "finish"]
                      ELSE [pc |-> "panicked", name |-> ""]
    /\ UNCHANGED <<vms, outq, tasks, passt_sockets, shutdown_reqs,
                   currently_creating_bubble, image_status, download, template, crashed, quit>>

\* AppMsg::FinishBubbleCreation: clear the registry and fill it from load_vms().
FinishBubbleCreation ==
    /\ ~crashed
    /\ ~quit
    /\ create.pc = "finish"
    /\ vms' \in load_vms(dirs)
    /\ currently_creating_bubble' = FALSE
    /\ create' = IdleCreate
    /\ UNCHANGED <<dirs, outq, tasks, passt_sockets, shutdown_reqs,
                   image_status, download, template, crashed, quit>>

\* AppMsg::CloseApplication, sent by the window's close request: present the
\* warning dialog and return while a download or a creation is in progress or a
\* VM's status is not NotRunning; quit otherwise.
CloseApplication ==
    /\ ~crashed
    /\ ~quit
    /\ LET vm_running == \E i \in 1..Len(vms) : vms[i].status # "NotRunning" IN
         IF image_status = "Downloading" \/ currently_creating_bubble \/ vm_running
         THEN UNCHANGED vars
         ELSE /\ quit' = TRUE
              /\ UNCHANGED <<vms, dirs, outq, tasks, passt_sockets, shutdown_reqs,
                             currently_creating_bubble, create, image_status,
                             download, template, crashed>>

\* ---------------------------------------------------------- image pipeline
\* AppMsg::DownloadImage, sent by the image row's button, which is sensitive
\* while image_status != Downloading.
DownloadImage ==
    /\ ~crashed
    /\ ~quit
    /\ image_status # "Downloading"
    /\ download.runs < MaxRuns
    /\ image_status' = "Downloading"
    /\ download' = [download EXCEPT !.pc = "pull", !.runs = @ + 1,
                                    !.steps = <<>>, !.before = template]
    /\ UNCHANGED <<vms, dirs, outq, tasks, passt_sockets, shutdown_reqs,
                   currently_creating_bubble, create, template, crashed, quit>>

Ran(step, ok) == Append(download.steps, [step |-> step, ok |-> ok])

\* download_image, step 1: create the target directory, start oras pull and wait
\* for it.  unwrap/expect panic when the directory cannot be created, the
\* command cannot be started or the wait fails; the exit status is not looked at.
OrasPull ==
    /\ ~crashed
    /\ ~quit
    /\ download.pc = "pull"
    /\ \E outcome \in {"mkdir_failed", "spawn_failed", "wait_failed",
                        "exit_failure", "exit_success"} :
         CASE outcome = "mkdir_failed" -> Abort
           [] outcome \in {"spawn_failed", "wait_failed"} ->
                /\ Panic
                /\ template' = [template EXCEPT !.dir = TRUE]
                /\ UNCHANGED <<dirs, passt_sockets>>
           [] OTHER ->
                /\ template' = [template EXCEPT
                                   !.dir = TRUE,
                                   !.qcow2 = @ \/ outcome = "exit_success"]
                /\ download' = [download EXCEPT
                                   !.pc = "convert",
                                   !.steps = Ran("pull", outcome = "exit_success")]
                /\ UNCHANGED <<vms, dirs, outq, tasks, passt_sockets, shutdown_reqs,
                               currently_creating_bubble, create, image_status, crashed, quit>>

\* download_image, step 2: start qemu-img convert disk.qcow2 -> disk.img and wait
\* for it, then remove disk.qcow2 (result dropped).  The command can succeed
\* only if disk.qcow2 is there; the exit status is not looked at.
QemuConvert ==
    /\ ~crashed
    /\ ~quit
    /\ download.pc = "convert"
    /\ \E outcome \in {"spawn_failed", "wait_failed", "exit_failure", "exit_success"} :
         /\ outcome = "exit_success" => template.qcow2
         /\ IF outcome \in {"spawn_failed", "wait_failed"}
            THEN Abort
            ELSE /\ template' = [template EXCEPT
                                    !.qcow2 = FALSE,
                                    !.raw = IF outcome = "exit_success"
                                            THEN File(download.artifact) ELSE @]
                 /\ download' = [download EXCEPT
                                    !.pc = "expand",
                                    !.steps = Ran("convert", outcome = "exit_success")]
                 /\ UNCHANGED <<vms, dirs, outq, tasks, passt_sockets, shutdown_reqs,
                                currently_creating_bubble, create, image_status, crashed, quit>>

\* download_image, step 3: open disk.img for writing, read its length and
\* set_len(current_size + 15 * 1024 * 1024 * 1024); each unwrap panics on
\* failure.  Then the task sends FinishImageDownload.
ExpandDisk ==
    /\ ~crashed
    /\ ~quit
    /\ download.pc = "expand"
    /\ \E outcome \in {"open_failed", "metadata_failed", "set_len_failed", "ok"} :
         /\ outcome # "open_failed" => template.raw.exists
         /\ IF outcome # "ok"
            THEN Abort
            ELSE /\ template' = [template EXCEPT
                                    !.raw = File(Plus(template.raw.size, GrowBy))]
                 /\ download' = [download EXCEPT
                                    !.pc = "finish", !.steps = Ran("expand", TRUE)]
                 /\ UNCHANGED <<vms, dirs, outq, tasks, passt_sockets, shutdown_reqs,
                                currently_creating_bubble, create, image_status, crashed, quit>>

\* AppMsg::FinishImageDownload: image_status = determine_download_status().
FinishImageDownload ==
    /\ ~crashed
    /\ ~quit
    /\ download.pc = "finish"
    /\ image_status' = determine_download_status(template.dir)
    /\ download' = [download EXCEPT !.pc = "idle"]
    /\ UNCHANGED <<vms, dirs, outq, tasks, passt_sockets, shutdown_reqs,
                   currently_creating_bubble, create, template, crashed, quit>>

\* ------------------------------------------------------------------ Next
Processes == {"socat", "passt", "crosvm"}

Next ==
    \/ \E i \in 0..(Len(vms) - 1) : PowerToggle(i)
    \/ \E k \in TaskIds : StartHelpers(k)
    \/ \E k \in TaskIds : WaitUntilExists(k)
    \/ \E k \in TaskIds : WaitUntilReady(k)
    \/ \E k \in TaskIds : WaitCrosvm(k)
    \/ \E k \in TaskIds : WaitSocat(k)
    \/ \E k \in TaskIds : WaitPasst(k)
    \/ \E k \in TaskIds : PasstListens(k)
    \/ \E k \in TaskIds, p \in Processes : ProcessExit(k, p)
    \/ HandleVMStatusUpdate
    \/ \E name \in NewNames : CreateNewBubble(name)
    \/ create_vm
    \/ FinishBubbleCreation
    \/ CloseApplication

Spec == Init /\ [][Next]_vars

\* The steps of the VM lifecycle alone.
NextStatic ==
    \/ \E i \in 0..(Len(vms) - 1) : PowerToggle(i)
    \/ \E k \in TaskIds : StartHelpers(k)
    \/ \E k \in TaskIds : WaitUntilExists(k)
    \/ \E k \in TaskIds : WaitUntilReady(k)
    \/ \E k \in TaskIds : WaitCrosvm(k)
    \/ \E k \in TaskIds : WaitSocat(k)
    \/ \E k \in TaskIds : WaitPasst(k)
    \/ \E k \in TaskIds : PasstListens(k)
    \/ \E k \in TaskIds, p \in Processes : ProcessExit(k, p)
    \/ HandleVMStatusUpdate

SpecStatic == InitStatic /\ [][NextStatic]_vars

\* Scheduling: the main context runs every ready task and delivers every
\* forwarded message; passt creates its socket; a helper sent SIGTERM exits.
\* Nothing makes the user toggle or a hypervisor exit.
TaskStep(k) ==
    \/ StartHelpers(k)
    \/ WaitUntilExists(k)
    \/ WaitUntilReady(k)
    \/ WaitCrosvm(k)
    \/ WaitSocat(k)
    \/ WaitPasst(k)

HelperStep(k) ==
    \/ PasstListens(k)
    \/ ProcessExit(k, "socat")
    \/ ProcessExit(k, "passt")

Fairness ==
    /\ WF_vars(HandleVMStatusUpdate)
    /\ \A k \in 1..MaxStarts : WF_vars(TaskStep(k)) /\ WF_vars(HelperStep(k))

FairPair == InitPair /\ [][NextStatic]_vars /\ Fairness

\* The image pipeline and instance creation.  The main context runs the
\* download task, the tokio runtime runs the create_vm task, and their
\* completion messages are delivered; nothing makes the user press a button.
NextImage ==
    \/ DownloadImage
    \/ OrasPull
    \/ QemuConvert
    \/ ExpandDisk
    \/ FinishImageDownload
    \/ \E name \in NewNames : CreateNewBubble(name)
    \/ create_vm
    \/ FinishBubbleCreation

PipelineStep == OrasPull \/ QemuConvert \/ ExpandDisk

SpecImage ==
    /\ InitImage
    /\ [][NextImage]_vars
    /\ WF_vars(PipelineStep)
    /\ WF_vars(FinishImageDownload)
    /\ WF_vars(create_vm)
    /\ WF_vars(FinishBubbleCreation)

\* ================================================================ claims
IsPrefix(s, t) == Len(s) <= Len(t) /\ SubSeq(t, 1, Len(s)) = s

Positions == 1..Len(vms)

Live(k) == tasks[k].pc # "done"

\* C1: a VM's registry status is Running only if the control channel of a start
\* sequence of that VM has answered GET /ready with a text containing "200".
C1_RunningOnlyAfterReady ==
    \A i \in Positions :
        vms[i].status = "Running" =>
            \E k \in TaskIds : tasks[k].name = vms[i].name /\ tasks[k].ready

\* C2: at most one start sequence of a VM is in flight at any time.
C2_OneStartSequencePerVM ==
    \A j, k \in TaskIds :
        (j # k /\ tasks[j].name = tasks[k].name) => ~(Live(j) /\ Live(k))

\* C3: a PowerToggle handled while the VM is NotRunning leaves the status
\* InFlux when the handler returns, and no step takes a status from NotRunning
\* to Running.
C3_ToggleIsSynchronous ==
    [][\A i \in Positions :
          /\ (PowerToggle(i - 1) /\ vms[i].status = "NotRunning")
                => vms'[i].status = "InFlux"
          /\ (vms[i].status = "NotRunning" /\ ~crashed')
                => vms'[i].status # "Running"]_vars

\* C4: the only status edges taken are NotRunning -> InFlux, InFlux -> Running,
\* Running -> InFlux and InFlux -> NotRunning.
CycleEdges ==
    {<<"NotRunning", "InFlux">>, <<"InFlux", "Running">>,
     <<"Running", "InFlux">>, <<"InFlux", "NotRunning">>}

C4_StatusCycle ==
    [][\A i \in Positions : \A j \in 1..Len(vms') :
          (vms'[j].name = vms[i].name /\ vms'[j].status # vms[i].status)
              => <<vms[i].status, vms'[j].status>> \in CycleEdges]_vars

\* C5: when a start sequence has published NotRunning, its hypervisor has
\* exited, both helpers have been sent SIGTERM and both helpers have exited.
C5_NotRunningAfterTeardown ==
    \A k \in TaskIds :
        (tasks[k].pc = "done"
           \/ \E n \in 1..Len(outq) : outq[n].task = k /\ outq[n].status = "NotRunning")
        => /\ tasks[k].crosvm = "exited"
           /\ tasks[k].sig_socat /\ tasks[k].sig_passt
           /\ tasks[k].socat = "exited" /\ tasks[k].passt = "exited"

C5_Witness ==
    \E k \in TaskIds :
        /\ tasks[k].pc = "done"
        /\ \E n \in 1..Len(outq) : outq[n].task = k /\ outq[n].status = "NotRunning"

\* C6: while no hypervisor of a Running VM has exited, the VM's status stays
\* Running, whatever else happens.
C6_RunningUntilHypervisorExits ==
    [][\A i \in Positions :
          (/\ vms[i].status = "Running"
           /\ ~crashed'
           /\ \A k \in TaskIds : tasks[k].name = vms[i].name => tasks[k].crosvm # "exited"
           /\ \A k \in TaskIds : tasks'[k].name = vms[i].name => tasks'[k].crosvm # "exited")
          => \E j \in 1..Len(vms') :
                 vms'[j].name = vms[i].name /\ vms'[j].status = "Running"]_vars

C8_RegistryStableWhileRunning ==
    [][/\ FinishBubbleCreation => \A i \in Positions : vms[i].status = "NotRunning"
       /\ \A k \in TaskIds :
             (Live(k) /\ ~crashed') => vms'[tasks[k].index + 1].name = tasks[k].name]_vars

Pending(k, status) ==
    \E n \in 1..Len(outq) : outq[n].task = k /\ outq[n].status = status

Applied(k, status) ==
    /\ ~Pending(k, status)
    /\ vms[tasks[k].index + 1].status = status

Completed == Len(download.steps) = 3

StepOk(step) ==
    \E n \in 1..Len(download.steps) :
        download.steps[n].step = step /\ download.steps[n].ok

\* C11: DownloadImage sets image_status to Downloading, FinishImageDownload sets
\* it to the value of a fresh probe, and once a run has begun image_status
\* gets back to a probed value, whether the steps succeed or fail.
C11_StatusFollowsPipeline ==
    /\ [][DownloadImage => image_status' = "Downloading"]_vars
    /\ [][FinishImageDownload =>
            image_status' = determine_download_status(template.dir)]_vars
    /\ (image_status = "Downloading")
          ~> (/\ ~crashed
              /\ download.pc = "idle"
              /\ image_status = determine_download_status(template.dir))

\* C12: a step of the pipeline runs only if every step before it has
\* succeeded.
C12_FailedStepAborts ==
    \A n \in 1..Len(download.steps) :
        n < Len(download.steps) => download.steps[n].ok

\* C13: a run that began on a provisioned template directory and has completed
\* leaves the directory as one successful run leaves it.
C13_Idempotent ==
    (Completed /\ download.before = Provisioned(download.artifact))
        => template = Provisioned(download.artifact)

\* C14: after a run whose conversion produced a raw disk of S bytes, disk.img
\* has S + 15 * 2^30 bytes.
C14_FinalSizeIsConvertedPlus15GiB ==
    (Completed /\ StepOk("convert"))
        => /\ template.raw.exists
           /\ template.raw.size.hi = download.artifact.hi + 15
           /\ template.raw.size.lo = download.artifact.lo

C14_Witness ==
    /\ Completed
    /\ StepOk("convert")
    /\ download.runs = 2
    /\ download.artifact = Size(1, Limb - 1)
    /\ template.raw = File(Size(16, Limb - 1))

\* ----------------------------------------------------- instance creation
\* C15: a creation request is answered: once create_vm has been started, the
\* orchestrator stops waiting for it, whether the copies succeed or fail.
C15_CopyFailureIsReported ==
    currently_creating_bubble ~> (~crashed /\ ~currently_creating_bubble)

\* ------------------------------------------------------- start sequence
\* C16: when the spawn of socat, passt or crosvm fails, the start sequence
\* publishes NotRunning for its VM and the process goes on.
SpawnStep(k) ==
    \/ StartHelpers(k)
    \/ WaitUntilExists(k) /\ tasks[k].name \in passt_sockets

Spawned(k) ==
    /\ k \in 1..Len(tasks')
    /\ tasks'[k].pc \in {"wait_exists", "wait_ready"}

C16_SpawnFailureLeavesNotRunning ==
    [][\A k \in TaskIds :
          (SpawnStep(k) /\ ~Spawned(k))
              => /\ ~crashed'
                 /\ \E n \in 1..Len(outq') :
                        outq'[n].task = k /\ outq'[n].status = "NotRunning"]_vars

\* C17: one turn of the readiness loop returns exactly when its exchange gave
\* a response text with "200" in it; on an error or any other text it changes
\* no status, publishes nothing, aborts nothing and stays in the loop.
Has200(text) ==
    \E i \in 0..(Len(text) - 3) :
        text[i + 1] = "2" /\ text[i + 2] = "0" /\ text[i + 3] = "0"

Verdict(k, r) ==
    /\ ~crashed'
    /\ vms' = vms
    /\ IF r.ok /\ Has200(r.text)
       THEN tasks'[k].pc = "wait_crosvm" /\ tasks'[k].ready
       ELSE tasks' = tasks /\ outq' = outq

C17_ReadyExactlyOn200 ==
    [][\A k \in TaskIds :
          (Runnable(k) /\ tasks[k].pc = "wait_ready")
              => \A ready \in BOOLEAN :
                    PollStep(k, ready)
                        => \A r \in ReadyResults(k) :
                              ReadyAnswer(r) = ready => Verdict(k, r)]_vars

C17_Witness ==
    \E j, k \in TaskIds :
        /\ tasks[k].ready /\ tasks[k].pc = "wait_crosvm" /\ Pending(k, "Running")
        /\ tasks[j].pc = "wait_ready" /\ tasks[j].guest = "silent"

\* C18: once the hypervisor of a start sequence has exited, the sequence gets
\* to its end and its NotRunning is applied to the registry, unless the process
\* has been aborted.
C18_HypervisorExitLeadsToNotRunning ==
    \A k \in 1..MaxStarts :
        (k \in TaskIds /\ tasks[k].crosvm = "exited")
          ~> \/ (k \in TaskIds /\ tasks[k].pc = "done" /\ Applied(k, "NotRunning"))
             \/ crashed

\* C19: HandleVMStatusUpdate writes the status a start sequence published to
\* the registry entry of that sequence's VM, and to no other entry.
C19_UpdateReachesItsVM ==
    [][HandleVMStatusUpdate =>
          LET m == Head(outq) IN
          /\ m.index < Len(vms)
          /\ vms[m.index + 1].name = tasks[m.task].name
          /\ \A i \in Positions : i # m.index + 1 => vms'[i] = vms[i]]_vars

\* C20: a PowerToggle handled while the VM is Running or InFlux changes no
\* status, publishes nothing and leaves every start sequence, process and
\* socket as it is.
C20_StopToggleFrame ==
    [][\A i \in Positions :
          (PowerToggle(i - 1) /\ vms[i].status \in {"Running", "InFlux"})
              => UNCHANGED <<vms, dirs, outq, tasks, passt_sockets,
                             currently_creating_bubble, create, image_status,
                             download, template, crashed, quit>>]_vars

C20_Witness ==
    /\ shutdown_reqs
    /\ Len(tasks) = 1
    /\ tasks[1].crosvm = "alive"
    /\ vms[tasks[1].index + 1].status = "Running"

\* C21: a start sequence whose hypervisor has been spawned has spawned both
\* helper processes before, and the network proxy's socket path exists; a
\* start sequence whose socket path does not exist has not got past the
\* polling of wait_until_exists, and its hypervisor has not been spawned.
C21_HypervisorAfterProxySocket ==
    \A k \in TaskIds :
        /\ tasks[k].crosvm # "none" =>
              /\ tasks[k].socat # "none"
              /\ tasks[k].passt # "none"
              /\ tasks[k].name \in passt_sockets
        /\ tasks[k].name \notin passt_sockets =>
              /\ tasks[k].pc \in {"start", "wait_exists"}
              /\ tasks[k].crosvm = "none"

C21_Witness ==
    \E j, k \in TaskIds :
        /\ tasks[j].crosvm = "alive"
        /\ tasks[j].name \in passt_sockets
        /\ tasks[k].pc = "wait_exists"
        /\ tasks[k].passt = "alive"
        /\ tasks[k].name \notin passt_sockets

\* C22: whenever no provisioning run is in progress and the template directory
\* holds no raw disk file, the probe of the image status gives NotPresent.
C22_NoDiskMeansNotPresent ==
    (download.pc = "idle" /\ ~template.raw.exists)
        => determine_download_status(template.dir) = "NotPresent"

\* C23: a VM with a live hypervisor or helper process has registry status
\* InFlux or Running, from the moment the InFlux its start sequence published
\* has been applied to the registry.
ProcessAlive(k) ==
    \/ tasks[k].socat = "alive"
    \/ tasks[k].passt = "alive"
    \/ tasks[k].crosvm = "alive"

Announced(k) == ~Pending(k, "InFlux")

C23_AliveMeansInFluxOrRunning ==
    \A k \in TaskIds :
        (ProcessAlive(k) /\ Announced(k)) =>
            \E i \in Positions :
                /\ vms[i].name = tasks[k].name
                /\ vms[i].status \in {"InFlux", "Running"}

CloseAllowed ==
    /\ image_status # "Downloading"
    /\ ~currently_creating_bubble
    /\ \A i \in Positions : vms[i].status = "NotRunning"

C25_QuitOnlyWhenIdle ==
    /\ [][CloseApplication => IF CloseAllowed THEN quit' ELSE UNCHANGED vars]_vars
    /\ [](quit => \A k \in TaskIds :
                      Announced(k) => (tasks[k].pc = "done" /\ tasks[k].crosvm # "alive"))

====
